---- MODULE Spec2Model ----
(***************************************************************************)
(* Model of the ClusterDeployment admission webhook of kcm                 *)
(* (internal/webhook/clusterdeployment_webhook.go): ValidateCreate,        *)
(* ValidateUpdate, Default and the checks they compose, over an object     *)
(* store of ClusterTemplates, ServiceTemplates and Credentials.            *)
(*                                                                         *)
(* Every check is an operator that returns the error it produces together  *)
(* with the list of store keys it read, in the order the code reads them.  *)
(* An operator is given the log of the Gets its call has already made, so  *)
(* that a call is taken Get by Get, each Get reading the store as it is    *)
(* at that moment, with the controllers writing to the store in between.   *)
(* SpecLifecycle follows an admitted deployment through its reconciler.    *)
(***************************************************************************)
EXTENDS Naturals, Sequences, FiniteSets, TLC

VARIABLES
    clusterTemplates,            \* store: name -> ClusterTemplate
    serviceTemplates,            \* store: name -> ServiceTemplate
    credentials,                 \* store: name -> Credential
    ValidateClusterUpgradePath,  \* field of ClusterDeploymentValidator
    deployment,                  \* the ClusterDeployment held by the store
    request,                     \* the admission request being decided
    response,                    \* what the webhook answered to it
    call,                        \* a validating call in progress, step by step
    lifecycle                    \* the deployment as its reconciler sees it

vars == <<clusterTemplates, serviceTemplates, credentials,
          ValidateClusterUpgradePath, deployment, request, response, call,
          lifecycle>>

store == <<clusterTemplates, serviceTemplates, credentials>>

----------------------------------------------------------------------------
(* Bounds of the model *)

\* longest Spec.ServiceSpec.Services list drawn as an input
MaxServices == 2

\* longest Services list drawn as an input of validateK8sCompatibility alone
MaxCompatServices == 3

\* longest Status.Providers list drawn as an input
MaxProviders == 2

----------------------------------------------------------------------------
(* Values *)

TemplateNames == {"t1", "t2", "t3"}
ServiceTemplateNames == {"s1", "s2"}
CredentialNames == {"c1"}

\* apiextensionsv1.JSON behind a pointer: set = FALSE is the nil pointer
NilConfig == [set |-> FALSE, raw |-> ""]
JSONConfig(raw) == [set |-> TRUE, raw |-> raw]

InfraPrefix == "infrastructure-"
secretKind == "Secret"

ProviderStrings ==
    {"infrastructure-internal", "infrastructure-aws", "infrastructure-azure",
     "infrastructure-unknown", "bootstrap-k0sproject-k0smotron"}

IdentityKinds == {"Secret", "AWSClusterStaticIdentity", "AzureClusterIdentity"}

KubernetesVersions == {"", "1.29.0", "1.30.0", "invalid"}
KubernetesConstraints == {"", ">=1.28.0,<1.30.0", ">=1.30.0", "invalid"}

\* all sequences over S of length at most n
SeqsUpTo(S, n) == UNION {[1..k -> S] : k \in 0..n}

----------------------------------------------------------------------------
(* Errors.  wrap is the text the caller put in front with fmt.Errorf,      *)
(* reason is the place that produced the error, subject what it names.     *)

(* cause is the Go error the message wraps with %w: "NotFound" for the      *)
(* store's StatusError, "semver" for a parse error of the semver library,  *)
(* "" when the error is a plain errors.New / fmt.Errorf text.               *)

NoErr == [wrap |-> "", reason |-> "", subject |-> "", cause |-> ""]
Err(reason, subject, cause) ==
    [wrap |-> "", reason |-> reason, subject |-> subject, cause |-> cause]
Wrap(prefix, e) == [e EXCEPT !.wrap = prefix]
IsErr(e) == e.reason # ""

invalidClusterDeploymentMsg == "the ClusterDeployment is invalid"
k8sCompatibilityMsg == "failed to validate k8s compatibility"
k8sCompatibilityWarning ==
    "Failed to validate k8s version compatibility with ServiceTemplates"
errClusterUpgradeForbidden == Err("cluster upgrade is forbidden", "", "")
upgradeWarning == "This upgrade sequence is not allowed"

----------------------------------------------------------------------------
(* The object store.  An absent object reads as the zero value of its      *)
(* type together with a NotFound error, as client.Get leaves it.           *)

NoClusterTemplate ==
    [exists |-> FALSE, valid |-> FALSE, kubernetesVersion |-> "",
     providers |-> <<>>, config |-> NilConfig]
NoServiceTemplate ==
    [exists |-> FALSE, valid |-> FALSE, kubernetesConstraint |-> ""]
NoCredential == [exists |-> FALSE, ready |-> FALSE, kind |-> ""]

Key(kind, name) == [kind |-> kind, name |-> name]

\* an entry of a call's log: the key of a Get and the object it returned
Entry(key, obj) == [key |-> key, obj |-> obj]

\* what is left of a log after its first k entries
Drop(log, k) ==
    IF k >= Len(log) THEN <<>> ELSE SubSeq(log, k + 1, Len(log))

\* client.Get: the object, the error and the key read.  A call in progress
\* carries in log what its Gets returned so far, in order: the Get at the
\* head of the log yields what it returned then, a Get past the end of the
\* log reads objects as they are now.  With an empty log every Get reads
\* objects.
Get(log, objects, absent, kind, name) ==
    LET found == name \in DOMAIN objects /\ objects[name].exists
        obj == IF log # <<>> /\ log[1].key = Key(kind, name) THEN log[1].obj
               ELSE IF found THEN objects[name] ELSE absent
    IN  [obj   |-> obj,
         err   |-> IF obj.exists THEN NoErr
                   ELSE Err("NotFound", name, "NotFound"),
         reads |-> <<Key(kind, name)>>]

----------------------------------------------------------------------------
(* github.com/Masterminds/semver/v3 on the strings of the model.           *)

Version(major, minor, patch) ==
    [major |-> major, minor |-> minor, patch |-> patch, ok |-> TRUE]
BadVersion == [major |-> 0, minor |-> 0, patch |-> 0, ok |-> FALSE]

\* semver.NewVersion
NewVersion(s) ==
    CASE s = "1.28.0" -> Version(1, 28, 0)
      [] s = "1.29.0" -> Version(1, 29, 0)
      [] s = "1.30.0" -> Version(1, 30, 0)
      [] OTHER -> BadVersion

\* Version.Compare: -1, 0, 1 as 0, 1, 2
Compare(a, b) ==
    IF a.major # b.major THEN (IF a.major < b.major THEN 0 ELSE 2)
    ELSE IF a.minor # b.minor THEN (IF a.minor < b.minor THEN 0 ELSE 2)
    ELSE IF a.patch # b.patch THEN (IF a.patch < b.patch THEN 0 ELSE 2)
    ELSE 1

\* semver.NewConstraint: a comma separated list is a conjunction
NewConstraint(c) ==
    CASE c = ">=1.28.0,<1.30.0" ->
            [ok |-> TRUE,
             all |-> <<[op |-> ">=", version |-> NewVersion("1.28.0")],
                       [op |-> "<", version |-> NewVersion("1.30.0")]>>]
      [] c = ">=1.30.0" ->
            [ok |-> TRUE,
             all |-> <<[op |-> ">=", version |-> NewVersion("1.30.0")]>>]
      [] OTHER -> [ok |-> FALSE, all |-> <<>>]

\* Constraints.Check
Check(constraint, v) ==
    \A i \in 1..Len(constraint.all) :
        LET c == constraint.all[i]
        IN  CASE c.op = ">=" -> Compare(v, c.version) # 0
              [] c.op = "<"  -> Compare(v, c.version) = 0

----------------------------------------------------------------------------
(* providersloader: the prefix of infrastructure providers and the         *)
(* catalog of the identity kinds each of them accepts.                     *)

HasPrefix(s, prefix) ==
    prefix = InfraPrefix /\
    s \in {"infrastructure-internal", "infrastructure-aws",
           "infrastructure-azure", "infrastructure-unknown"}

TrimPrefix(s, prefix) ==
    CASE s = "infrastructure-internal" -> "internal"
      [] s = "infrastructure-aws" -> "aws"
      [] s = "infrastructure-azure" -> "azure"
      [] s = "infrastructure-unknown" -> "unknown"
      [] OTHER -> s

GetClusterIdentityKinds(infraProviderName) ==
    CASE infraProviderName = "aws" ->
            [found |-> TRUE, kinds |-> {"AWSClusterStaticIdentity"}]
      [] infraProviderName = "azure" ->
            [found |-> TRUE, kinds |-> {"AzureClusterIdentity", "Secret"}]
      [] OTHER -> [found |-> FALSE, kinds |-> {}]

----------------------------------------------------------------------------
(* validateK8sCompatibility *)

RECURSIVE checkServices_IgnoreDisable(_, _, _, _, _)
\* the loop of validateK8sCompatibility without the Disable test of line 156
checkServices_IgnoreDisable(log, svcTpls, template, services, i) ==
    IF i > Len(services) THEN [err |-> NoErr, reads |-> <<>>]
    ELSE
    LET v == services[i]
        got == Get(log, svcTpls, NoServiceTemplate, "ServiceTemplate", v.template)
        constraint == got.obj.kubernetesConstraint
        rest == checkServices_IgnoreDisable(Drop(log, 1), svcTpls, template,
                                           services, i + 1)
    IN  IF IsErr(got.err)
        THEN [err |-> Err("failed to get ServiceTemplate", v.template,
                          got.err.cause),
              reads |-> got.reads]
        ELSE IF constraint = ""
        THEN [err |-> rest.err, reads |-> got.reads \o rest.reads]
        ELSE IF ~NewConstraint(constraint).ok
        THEN [err |-> Err("failed to parse k8s constrained version",
                          v.template, "semver"),
              reads |-> got.reads]
        ELSE IF ~Check(NewConstraint(constraint),
                       NewVersion(template.kubernetesVersion))
        THEN [err |-> Err("does not satisfy constrained version",
                          v.template, ""),
              reads |-> got.reads]
        ELSE [err |-> rest.err, reads |-> got.reads \o rest.reads]

RECURSIVE checkServices(_, _, _, _, _)
\* the loop of validateK8sCompatibility over Services[i..]
checkServices(log, svcTpls, template, services, i) ==
    IF i > Len(services) THEN [err |-> NoErr, reads |-> <<>>]
    ELSE
    LET v == services[i] IN
    IF v.disable THEN checkServices(log, svcTpls, template, services, i + 1)
    ELSE
    LET got == Get(log, svcTpls, NoServiceTemplate, "ServiceTemplate", v.template)
        constraint == got.obj.kubernetesConstraint
        rest == checkServices(Drop(log, 1), svcTpls, template, services,
                             i + 1)
    IN  IF IsErr(got.err)
        THEN [err |-> Err("failed to get ServiceTemplate", v.template,
                          got.err.cause),
              reads |-> got.reads]
        ELSE IF constraint = ""
        THEN [err |-> rest.err, reads |-> got.reads \o rest.reads]
        ELSE IF ~NewConstraint(constraint).ok
        THEN [err |-> Err("failed to parse k8s constrained version",
                          v.template, "semver"),
              reads |-> got.reads]
        ELSE IF ~Check(NewConstraint(constraint),
                       NewVersion(template.kubernetesVersion))
        THEN [err |-> Err("does not satisfy constrained version",
                          v.template, ""),
              reads |-> got.reads]
        ELSE [err |-> rest.err, reads |-> got.reads \o rest.reads]

\* validateK8sCompatibility whose early return of line 146 tests the
\* service list alone
validateK8sCompatibility_VersionAlwaysParsed(log, svcTpls, template, mc) ==
    IF Len(mc.services) = 0
    THEN [err |-> NoErr, reads |-> <<>>]
    ELSE IF ~NewVersion(template.kubernetesVersion).ok
    THEN [err |-> Err("failed to parse k8s version",
                      template.kubernetesVersion, "semver"),
          reads |-> <<>>]
    ELSE checkServices(log, svcTpls, template, mc.services, 1)

validateK8sCompatibility(log, svcTpls, template, mc) ==
    IF Len(mc.services) = 0 \/ template.kubernetesVersion = ""
    THEN [err |-> NoErr, reads |-> <<>>]
    ELSE IF ~NewVersion(template.kubernetesVersion).ok
    THEN [err |-> Err("failed to parse k8s version",
                      template.kubernetesVersion, "semver"),
          reads |-> <<>>]
    ELSE checkServices(log, svcTpls, template, mc.services, 1)

----------------------------------------------------------------------------
(* validateCredential and isCredMatchTemplate *)

isTemplateValid(status) ==
    IF ~status.valid THEN Err("the template is not valid", "", "") ELSE NoErr

RECURSIVE matchProviders_InternalAnyKind(_, _, _)
\* the loop of isCredMatchTemplate without the kind test of line 291
matchProviders_InternalAnyKind(idtyKind, providers, i) ==
    IF i > Len(providers) THEN NoErr
    ELSE
    LET provider == providers[i]
        infraProviderName == TrimPrefix(provider, InfraPrefix)
        idtys == GetClusterIdentityKinds(infraProviderName)
        errMsg == Err("wrong kind of the ClusterIdentity",
                      infraProviderName, "")
    IN  IF ~HasPrefix(provider, InfraPrefix)
        THEN matchProviders_InternalAnyKind(idtyKind, providers, i + 1)
        ELSE IF infraProviderName = "internal"
        THEN matchProviders_InternalAnyKind(idtyKind, providers, i + 1)
        ELSE IF ~idtys.found
        THEN Err("unsupported infrastructure provider", infraProviderName, "")
        ELSE IF idtyKind \notin idtys.kinds THEN errMsg
        ELSE matchProviders_InternalAnyKind(idtyKind, providers, i + 1)

RECURSIVE matchProviders(_, _, _)
\* the loop of isCredMatchTemplate over Status.Providers[i..]
matchProviders(idtyKind, providers, i) ==
    IF i > Len(providers) THEN NoErr
    ELSE
    LET provider == providers[i]
        infraProviderName == TrimPrefix(provider, InfraPrefix)
        idtys == GetClusterIdentityKinds(infraProviderName)
        errMsg == Err("wrong kind of the ClusterIdentity",
                      infraProviderName, "")
    IN  IF ~HasPrefix(provider, InfraPrefix)
        THEN matchProviders(idtyKind, providers, i + 1)
        ELSE IF infraProviderName = "internal"
        THEN (IF idtyKind # secretKind THEN errMsg
              ELSE matchProviders(idtyKind, providers, i + 1))
        ELSE IF ~idtys.found
        THEN Err("unsupported infrastructure provider", infraProviderName, "")
        ELSE IF idtyKind \notin idtys.kinds THEN errMsg
        ELSE matchProviders(idtyKind, providers, i + 1)

isCredMatchTemplate(cred, template) ==
    matchProviders(cred.kind, template.providers, 1)

getClusterDeploymentTemplate(log, tpls, templateName) ==
    Get(log, tpls, NoClusterTemplate, "ClusterTemplate", templateName)

getClusterDeploymentCredential(log, creds, credName) ==
    Get(log, creds, NoCredential, "Credential", credName)

validateCredential(log, creds, clusterDeployment, template) ==
    LET hasInfra == \E i \in 1..Len(template.providers) :
                        HasPrefix(template.providers[i], InfraPrefix)
        got == getClusterDeploymentCredential(log, creds,
                                              clusterDeployment.credential)
    IN  IF Len(template.providers) = 0
        THEN [err |-> Err("template has no providers defined", "", ""),
              reads |-> <<>>]
        ELSE IF ~hasInfra
        THEN [err |-> Err("template has no infrastructure providers defined",
                          "", ""),
              reads |-> <<>>]
        ELSE IF IsErr(got.err) THEN [err |-> got.err, reads |-> got.reads]
        ELSE IF ~got.obj.ready
        THEN [err |-> Err("credential is not Ready", "", ""),
              reads |-> got.reads]
        ELSE [err |-> isCredMatchTemplate(got.obj, template),
              reads |-> got.reads]


----------------------------------------------------------------------------
(* internal/utils/validation: the two checks the webhook calls last.       *)

\* a service attachment that names a namespace other than the deployment's
ClusterDeployCrossNamespaceServicesRefs(clusterDeployment) ==
    LET services == clusterDeployment.services
        bad == {i \in 1..Len(services) : services[i].crossNamespace}
        first == CHOOSE i \in bad : \A j \in bad : i <= j
    IN  IF bad = {} THEN NoErr
        ELSE Err("cross-namespace service reference",
                 services[first].template, "")

RECURSIVE ServicesHaveValidTemplates(_, _, _, _)
\* every attached ServiceTemplate resolves and is valid, in declaration order
ServicesHaveValidTemplates(log, svcTpls, services, i) ==
    IF i > Len(services) THEN [err |-> NoErr, reads |-> <<>>]
    ELSE
    LET got == Get(log, svcTpls, NoServiceTemplate, "ServiceTemplate",
                   services[i].template)
        rest == ServicesHaveValidTemplates(Drop(log, 1), svcTpls, services,
                                          i + 1)
    IN  IF IsErr(got.err)
        THEN [err |-> Err("failed to get ServiceTemplate",
                          services[i].template, got.err.cause),
              reads |-> got.reads]
        ELSE IF ~got.obj.valid
        THEN [err |-> Err("the ServiceTemplate is invalid",
                          services[i].template, ""),
              reads |-> got.reads]
        ELSE [err |-> rest.err, reads |-> got.reads \o rest.reads]

----------------------------------------------------------------------------
(* The webhook's entry points.  A result carries the admission warnings,   *)
(* the error (NoErr when the request is admitted) and the keys read.       *)

Result(warnings, err, reads) ==
    [err |-> err, reads |-> reads, warnings |-> warnings]

\* the part ValidateCreate and ValidateUpdate share: lines 82-94 / 130-142
validateRest(log, svcTpls, creds, clusterDeployment, template, reads) ==
    LET cred == validateCredential(Drop(log, Len(reads)), creds,
                                   clusterDeployment, template)
        refs == ClusterDeployCrossNamespaceServicesRefs(clusterDeployment)
        svcs == ServicesHaveValidTemplates(
                    Drop(log, Len(reads) + Len(cred.reads)), svcTpls,
                    clusterDeployment.services, 1)
    IN  IF IsErr(cred.err)
        THEN Result(<<>>, Wrap(invalidClusterDeploymentMsg, cred.err),
                    reads \o cred.reads)
        ELSE IF IsErr(refs)
        THEN Result(<<>>, Wrap(invalidClusterDeploymentMsg, refs),
                    reads \o cred.reads)
        ELSE IF IsErr(svcs.err)
        THEN Result(<<>>, Wrap(invalidClusterDeploymentMsg, svcs.err),
                    reads \o cred.reads \o svcs.reads)
        ELSE Result(<<>>, NoErr, reads \o cred.reads \o svcs.reads)

\* ValidateCreate with validateCredential called before
\* validateK8sCompatibility
ValidateCreate_CredentialFirst(log, tpls, svcTpls, creds, obj) ==
    LET got == getClusterDeploymentTemplate(log, tpls, obj.template)
        template == got.obj
        valid == isTemplateValid(template)
        cred == validateCredential(Drop(log, Len(got.reads)), creds, obj,
                                   template)
        compat == validateK8sCompatibility(
                      Drop(log, Len(got.reads) + Len(cred.reads)), svcTpls,
                      template, obj)
        refs == ClusterDeployCrossNamespaceServicesRefs(obj)
        reads == got.reads \o cred.reads \o compat.reads
        svcs == ServicesHaveValidTemplates(Drop(log, Len(reads)), svcTpls,
                                           obj.services, 1)
    IN  IF IsErr(got.err)
        THEN Result(<<>>, Wrap(invalidClusterDeploymentMsg, got.err),
                    got.reads)
        ELSE IF IsErr(valid)
        THEN Result(<<>>, Wrap(invalidClusterDeploymentMsg, valid), got.reads)
        ELSE IF IsErr(cred.err)
        THEN Result(<<>>, Wrap(invalidClusterDeploymentMsg, cred.err),
                    got.reads \o cred.reads)
        ELSE IF IsErr(compat.err)
        THEN Result(<<k8sCompatibilityWarning>>,
                    Wrap(k8sCompatibilityMsg, compat.err), reads)
        ELSE IF IsErr(refs)
        THEN Result(<<>>, Wrap(invalidClusterDeploymentMsg, refs), reads)
        ELSE IF IsErr(svcs.err)
        THEN Result(<<>>, Wrap(invalidClusterDeploymentMsg, svcs.err),
                    reads \o svcs.reads)
        ELSE Result(<<>>, NoErr, reads \o svcs.reads)

ValidateCreate(log, tpls, svcTpls, creds, obj) ==
    LET got == getClusterDeploymentTemplate(log, tpls, obj.template)
        template == got.obj
        valid == isTemplateValid(template)
        compat == validateK8sCompatibility(Drop(log, Len(got.reads)), svcTpls,
                                           template, obj)
    IN  IF IsErr(got.err)
        THEN Result(<<>>, Wrap(invalidClusterDeploymentMsg, got.err),
                    got.reads)
        ELSE IF IsErr(valid)
        THEN Result(<<>>, Wrap(invalidClusterDeploymentMsg, valid), got.reads)
        ELSE IF IsErr(compat.err)
        THEN Result(<<k8sCompatibilityWarning>>,
                    Wrap(k8sCompatibilityMsg, compat.err),
                    got.reads \o compat.reads)
        ELSE validateRest(log, svcTpls, creds, obj, template,
                          got.reads \o compat.reads)

\* ValidateUpdate without the isTemplateValid call of line 121
ValidateUpdate_NoValidity(log, tpls, svcTpls, creds, upgradePath, oldObj, newObj) ==
    LET got == getClusterDeploymentTemplate(log, tpls, newObj.template)
        template == got.obj
        compat == validateK8sCompatibility(Drop(log, Len(got.reads)), svcTpls,
                                           template, newObj)
    IN  IF IsErr(got.err)
        THEN Result(<<>>, Wrap(invalidClusterDeploymentMsg, got.err),
                    got.reads)
        ELSE IF oldObj.template # newObj.template
        THEN IF upgradePath
                /\ newObj.template \notin oldObj.availableUpgrades
             THEN Result(<<upgradeWarning>>, errClusterUpgradeForbidden,
                         got.reads)
             ELSE IF IsErr(compat.err)
             THEN Result(<<k8sCompatibilityWarning>>,
                         Wrap(k8sCompatibilityMsg, compat.err),
                         got.reads \o compat.reads)
             ELSE validateRest(log, svcTpls, creds, newObj, template,
                               got.reads \o compat.reads)
        ELSE validateRest(log, svcTpls, creds, newObj, template, got.reads)

\* ValidateUpdate without the upgrade-path check of lines 116-119
ValidateUpdate_NoUpgradePath(log, tpls, svcTpls, creds, upgradePath, oldObj, newObj) ==
    LET got == getClusterDeploymentTemplate(log, tpls, newObj.template)
        template == got.obj
        valid == isTemplateValid(template)
        compat == validateK8sCompatibility(Drop(log, Len(got.reads)), svcTpls,
                                           template, newObj)
    IN  IF IsErr(got.err)
        THEN Result(<<>>, Wrap(invalidClusterDeploymentMsg, got.err),
                    got.reads)
        ELSE IF oldObj.template # newObj.template
        THEN IF IsErr(valid)
             THEN Result(<<>>, Wrap(invalidClusterDeploymentMsg, valid),
                         got.reads)
             ELSE IF IsErr(compat.err)
             THEN Result(<<k8sCompatibilityWarning>>,
                         Wrap(k8sCompatibilityMsg, compat.err),
                         got.reads \o compat.reads)
             ELSE validateRest(log, svcTpls, creds, newObj, template,
                               got.reads \o compat.reads)
        ELSE validateRest(log, svcTpls, creds, newObj, template, got.reads)

\* ValidateUpdate with isTemplateValid moved in front of the upgrade-path
\* check
ValidateUpdate_ValidityFirst(log, tpls, svcTpls, creds, upgradePath, oldObj, newObj) ==
    LET got == getClusterDeploymentTemplate(log, tpls, newObj.template)
        template == got.obj
        valid == isTemplateValid(template)
        compat == validateK8sCompatibility(Drop(log, Len(got.reads)), svcTpls,
                                           template, newObj)
    IN  IF IsErr(got.err)
        THEN Result(<<>>, Wrap(invalidClusterDeploymentMsg, got.err),
                    got.reads)
        ELSE IF oldObj.template # newObj.template
        THEN IF IsErr(valid)
             THEN Result(<<>>, Wrap(invalidClusterDeploymentMsg, valid),
                         got.reads)
             ELSE IF upgradePath
                     /\ newObj.template \notin oldObj.availableUpgrades
             THEN Result(<<upgradeWarning>>, errClusterUpgradeForbidden,
                         got.reads)
             ELSE IF IsErr(compat.err)
             THEN Result(<<k8sCompatibilityWarning>>,
                         Wrap(k8sCompatibilityMsg, compat.err),
                         got.reads \o compat.reads)
             ELSE validateRest(log, svcTpls, creds, newObj, template,
                               got.reads \o compat.reads)
        ELSE validateRest(log, svcTpls, creds, newObj, template, got.reads)

\* ValidateUpdate with lines 130-140 moved inside the branch of a changed
\* template reference
ValidateUpdate_RestOnlyOnChange(log, tpls, svcTpls, creds, upgradePath, oldObj, newObj) ==
    LET got == getClusterDeploymentTemplate(log, tpls, newObj.template)
        template == got.obj
        valid == isTemplateValid(template)
        compat == validateK8sCompatibility(Drop(log, Len(got.reads)), svcTpls,
                                           template, newObj)
    IN  IF IsErr(got.err)
        THEN Result(<<>>, Wrap(invalidClusterDeploymentMsg, got.err),
                    got.reads)
        ELSE IF oldObj.template # newObj.template
        THEN IF upgradePath
                /\ newObj.template \notin oldObj.availableUpgrades
             THEN Result(<<upgradeWarning>>, errClusterUpgradeForbidden,
                         got.reads)
             ELSE IF IsErr(valid)
             THEN Result(<<>>, Wrap(invalidClusterDeploymentMsg, valid),
                         got.reads)
             ELSE IF IsErr(compat.err)
             THEN Result(<<k8sCompatibilityWarning>>,
                         Wrap(k8sCompatibilityMsg, compat.err),
                         got.reads \o compat.reads)
             ELSE validateRest(log, svcTpls, creds, newObj, template,
                               got.reads \o compat.reads)
        ELSE Result(<<>>, NoErr, got.reads)

ValidateUpdate(log, tpls, svcTpls, creds, upgradePath, oldObj, newObj) ==
    LET oldTemplate == oldObj.template
        newTemplate == newObj.template
        got == getClusterDeploymentTemplate(log, tpls, newTemplate)
        template == got.obj
        valid == isTemplateValid(template)
        compat == validateK8sCompatibility(Drop(log, Len(got.reads)), svcTpls,
                                           template, newObj)
    IN  IF IsErr(got.err)
        THEN Result(<<>>, Wrap(invalidClusterDeploymentMsg, got.err),
                    got.reads)
        ELSE IF oldTemplate # newTemplate
        THEN IF upgradePath /\ newTemplate \notin oldObj.availableUpgrades
             THEN Result(<<upgradeWarning>>, errClusterUpgradeForbidden,
                         got.reads)
             ELSE IF IsErr(valid)
             THEN Result(<<>>, Wrap(invalidClusterDeploymentMsg, valid),
                         got.reads)
             ELSE IF IsErr(compat.err)
             THEN Result(<<k8sCompatibilityWarning>>,
                         Wrap(k8sCompatibilityMsg, compat.err),
                         got.reads \o compat.reads)
             ELSE validateRest(log, svcTpls, creds, newObj, template,
                               got.reads \o compat.reads)
        ELSE validateRest(log, svcTpls, creds, newObj, template, got.reads)

ValidateDelete(obj) == Result(<<>>, NoErr, <<>>)

\* Default without the Spec.Config test of line 199, the dry run following
\* whether the configuration was defaulted by this call
Default_ConfigNotTested(log, tpls, obj) ==
    LET got == getClusterDeploymentTemplate(log, tpls, obj.template)
        template == got.obj
        valid == isTemplateValid(template)
    IN  IF obj.template = ""
        THEN [obj |-> obj, err |-> NoErr, reads |-> <<>>]
        ELSE IF IsErr(got.err)
        THEN [obj |-> obj,
              err |-> Wrap("could not get template for the clusterDeployment",
                           got.err),
              reads |-> got.reads]
        ELSE IF IsErr(valid)
        THEN [obj |-> obj, err |-> Wrap("template is invalid", valid),
              reads |-> got.reads]
        ELSE IF ~template.config.set
        THEN [obj |-> obj, err |-> NoErr, reads |-> got.reads]
        ELSE [obj |-> [obj EXCEPT !.dryRun = ~obj.config.set,
                                  !.config = JSONConfig(template.config.raw)],
              err |-> NoErr, reads |-> got.reads]

\* Default that skips an invalid template without an error (line 209 gone)
Default_InvalidSkipped(log, tpls, obj) ==
    LET got == getClusterDeploymentTemplate(log, tpls, obj.template)
        template == got.obj
    IN  IF obj.config.set \/ obj.template = ""
        THEN [obj |-> obj, err |-> NoErr, reads |-> <<>>]
        ELSE IF IsErr(got.err)
        THEN [obj |-> obj,
              err |-> Wrap("could not get template for the clusterDeployment",
                           got.err),
              reads |-> got.reads]
        ELSE IF ~template.valid \/ ~template.config.set
        THEN [obj |-> obj, err |-> NoErr, reads |-> got.reads]
        ELSE [obj |-> [obj EXCEPT !.dryRun = TRUE,
                                  !.config = JSONConfig(template.config.raw)],
              err |-> NoErr, reads |-> got.reads]

\* Default: the defaulted object, the error and the keys read
Default(log, tpls, obj) ==
    LET got == getClusterDeploymentTemplate(log, tpls, obj.template)
        template == got.obj
        valid == isTemplateValid(template)
    IN  IF obj.config.set \/ obj.template = ""
        THEN [obj |-> obj, err |-> NoErr, reads |-> <<>>]
        ELSE IF IsErr(got.err)
        THEN [obj |-> obj,
              err |-> Wrap("could not get template for the clusterDeployment",
                           got.err),
              reads |-> got.reads]
        ELSE IF IsErr(valid)
        THEN [obj |-> obj, err |-> Wrap("template is invalid", valid),
              reads |-> got.reads]
        ELSE IF ~template.config.set
        THEN [obj |-> obj, err |-> NoErr, reads |-> got.reads]
        ELSE [obj |-> [obj EXCEPT !.dryRun = TRUE,
                                  !.config = JSONConfig(template.config.raw)],
              err |-> NoErr, reads |-> got.reads]


----------------------------------------------------------------------------
(* Objects, requests and responses.  Record fields are written in the     *)
(* order TLC keeps them in, so that no value is ever reordered after it    *)
(* was built.                                                              *)

ClusterTemplate(valid, version, providers, config) ==
    [exists |-> TRUE, valid |-> valid, kubernetesVersion |-> version,
     providers |-> providers, config |-> config]
ServiceTemplate(valid, constraint) ==
    [exists |-> TRUE, valid |-> valid, kubernetesConstraint |-> constraint]
Credential(ready, kind) == [exists |-> TRUE, ready |-> ready, kind |-> kind]

\* an entry of Spec.ServiceSpec.Services
Service(template, disable, crossNamespace) ==
    [template |-> template, disable |-> disable,
     crossNamespace |-> crossNamespace]

ClusterDeployment(template, credential, config, dryRun, services, upgrades) ==
    [exists |-> TRUE, config |-> config, template |-> template,
     services |-> services, credential |-> credential,
     availableUpgrades |-> upgrades, dryRun |-> dryRun]
NoDeployment ==
    [exists |-> FALSE, config |-> NilConfig, template |-> "",
     services |-> <<>>, credential |-> "", availableUpgrades |-> {},
     dryRun |-> FALSE]

Request(op, old, new) == [op |-> op, old |-> old, new |-> new]
NoRequest == Request("none", NoDeployment, NoDeployment)

\* obj is the object as the webhook left it
Response(op, res, obj) ==
    [obj |-> obj, err |-> res.err, reads |-> res.reads, op |-> op,
     warnings |-> res.warnings]
NoResponse == Response("none", Result(<<>>, NoErr, <<>>), NoDeployment)

\* the call in progress for the request: where it stands, what its Gets
\* returned so far, the stores that existed while it ran and the number of
\* writes that fell into it
Call(pc, log, snapshots, writes) ==
    [log |-> log, pc |-> pc, snapshots |-> snapshots, writes |-> writes]
NoCall == Call("idle", <<>>, {}, 0)

\* the deployment in the reconciler's state machine: its phase, the
\* finalizer, the deletion request and the rendered resources present
Lifecycle(phase, finalizer, deleting, resources) ==
    [phase |-> phase, finalizer |-> finalizer, deleting |-> deleting,
     resources |-> resources]
NoLifecycle == Lifecycle("None", FALSE, FALSE, {})

Allowed(resp) == resp.op # "none" /\ ~IsErr(resp.err)

\* what errors.Is / errors.As find in the chain of e: the store's
\* StatusError, semver.ErrInvalidSemVer under the version parse error of
\* line 152, the sentinel of line 46; the error of semver.NewConstraint and
\* every errors.New / fmt.Errorf of the webhook are texts without a type
ErrorTarget(e) ==
    CASE e.cause = "NotFound" -> "StatusError"
      [] e.cause = "semver" /\ e.reason = "failed to parse k8s version" ->
            "ErrInvalidSemVer"
      [] e.reason = "cluster upgrade is forbidden" ->
            "errClusterUpgradeForbidden"
      [] OTHER -> ""

\* the outcome of a validating call without its message text: whether it is
\* an error, the wrapper and the warnings the call added, the typed error
\* in the chain
OutcomeKind(res) ==
    [wrap |-> res.err.wrap, warnings |-> res.warnings,
     rejected |-> IsErr(res.err), target |-> ErrorTarget(res.err)]

----------------------------------------------------------------------------
(* A call of the webhook, Get by Get.  Every client.Get of the code reads  *)
(* the store as it is at that moment; nothing holds the store between two  *)
(* Gets of one call, and the controllers of the referenced objects write   *)
(* in between.  A step of a call is its next Get together with the code    *)
(* that follows it, up to the Get after it or to the return.               *)

\* most status writes that fall into one request
MaxWrites == 2

\* the object a Get of key returns now
Stored(key) ==
    CASE key.kind = "ClusterTemplate" ->
            getClusterDeploymentTemplate(<<>>, clusterTemplates, key.name).obj
      [] key.kind = "Credential" ->
            getClusterDeploymentCredential(<<>>, credentials, key.name).obj
      [] OTHER ->
            Get(<<>>, serviceTemplates, NoServiceTemplate, key.kind,
                key.name).obj

\* the log of the call after its next Get, reads being the keys the call
\* reads when it goes on from call.log; call.log when no Get is left
Extend(reads) ==
    IF Len(reads) > Len(call.log)
    THEN Append(call.log, Entry(reads[Len(call.log) + 1],
                                Stored(reads[Len(call.log) + 1])))
    ELSE call.log

\* the call has made the Gets of log and res is its result from there: it
\* stands before its next Get, or it returns res
Proceed(log, res, obj) ==
    IF Len(res.reads) > Len(log)
    THEN /\ call' = [call EXCEPT !.pc = "running", !.log = log]
         /\ UNCHANGED response
    ELSE /\ call' = [call EXCEPT !.pc = "done", !.log = log]
         /\ response' = Response(request.op, res, obj)

\* one step of ValidateCreate
DoValidateCreate ==
    /\ request.op = "create"
    /\ call.pc \in {"called", "validate", "running"}
    /\ LET log == Extend(ValidateCreate(call.log, clusterTemplates,
                                        serviceTemplates, credentials,
                                        request.new).reads)
       IN  Proceed(log,
                   ValidateCreate(log, clusterTemplates, serviceTemplates,
                                  credentials, request.new),
                   request.new)
    /\ UNCHANGED <<lifecycle, store, ValidateClusterUpgradePath, deployment, request>>

\* one step of ValidateUpdate
DoValidateUpdate ==
    /\ request.op = "update"
    /\ call.pc \in {"called", "validate", "running"}
    /\ LET log == Extend(ValidateUpdate(call.log, clusterTemplates,
                                        serviceTemplates, credentials,
                                        ValidateClusterUpgradePath,
                                        request.old, request.new).reads)
       IN  Proceed(log,
                   ValidateUpdate(log, clusterTemplates, serviceTemplates,
                                  credentials, ValidateClusterUpgradePath,
                                  request.old, request.new),
                   request.new)
    /\ UNCHANGED <<lifecycle, store, ValidateClusterUpgradePath, deployment, request>>

\* a write to the store: between two requests, or between two Gets of the
\* request being decided, where it is counted and the store it leaves kept
Overlap(tpls, svcTpls, creds) ==
    /\ call.pc \in {"idle", "validate", "running"}
    /\ IF call.pc = "idle" THEN UNCHANGED call
       ELSE /\ call.writes < MaxWrites
            /\ call' = [call EXCEPT
                           !.writes = @ + 1,
                           !.snapshots = IF @ = {} THEN @
                                         ELSE @ \cup {<<tpls, svcTpls, creds>>}]

\* the user creates a ClusterTemplate: k8sClient.Create stores it with the
\* zero status
TemplateCreate(name) ==
    /\ ~clusterTemplates[name].exists
    /\ clusterTemplates' =
           [clusterTemplates EXCEPT
               ![name] = ClusterTemplate(FALSE, "", <<>>, NilConfig)]
    /\ Overlap(clusterTemplates', serviceTemplates, credentials)
    /\ UNCHANGED <<serviceTemplates, credentials, ValidateClusterUpgradePath,
                   deployment, request, response, lifecycle>>

\* k8sClient.Delete of a ClusterTemplate
TemplateDelete(name) ==
    /\ clusterTemplates[name].exists
    /\ clusterTemplates' = [clusterTemplates EXCEPT ![name] = NoClusterTemplate]
    /\ Overlap(clusterTemplates', serviceTemplates, credentials)
    /\ UNCHANGED <<serviceTemplates, credentials, ValidateClusterUpgradePath,
                   deployment, request, response, lifecycle>>

\* k8sClient.Status().Update of a ClusterTemplate: the whole status is
\* stored, Valid together with Config, KubernetesVersion and Providers
TemplateStatusUpdate(name, status) ==
    /\ clusterTemplates[name].exists
    /\ status.exists /\ status # clusterTemplates[name]
    /\ clusterTemplates' = [clusterTemplates EXCEPT ![name] = status]
    /\ Overlap(clusterTemplates', serviceTemplates, credentials)
    /\ UNCHANGED <<serviceTemplates, credentials, ValidateClusterUpgradePath,
                   deployment, request, response, lifecycle>>

\* the same for a ServiceTemplate: Valid together with KubernetesConstraint
ServiceTemplateStatusUpdate(name, status) ==
    /\ serviceTemplates[name].exists
    /\ status.exists /\ status # serviceTemplates[name]
    /\ serviceTemplates' = [serviceTemplates EXCEPT ![name] = status]
    /\ Overlap(clusterTemplates, serviceTemplates', credentials)
    /\ UNCHANGED <<clusterTemplates, credentials, ValidateClusterUpgradePath,
                   deployment, request, response, lifecycle>>

\* the credential controller writes the status of a Credential, which is
\* Ready alone; the identity kind is part of its Spec
CredentialStatusUpdate(name, ready) ==
    /\ credentials[name].exists
    /\ credentials[name].ready # ready
    /\ credentials' = [credentials EXCEPT ![name].ready = ready]
    /\ Overlap(clusterTemplates, serviceTemplates, credentials')
    /\ UNCHANGED <<clusterTemplates, serviceTemplates,
                   ValidateClusterUpgradePath, deployment, request, response,
                   lifecycle>>

----------------------------------------------------------------------------
(* ValidateCreate and ValidateUpdate on drawn stores and requests.  The    *)
(* store of Init is the store at the first Get of the call; the writes     *)
(* fall between that Get and the return.                                   *)

GoodTemplate ==
    ClusterTemplate(TRUE, "1.29.0", <<"infrastructure-internal">>, NilConfig)

AdmitTemplates ==
    {NoClusterTemplate, GoodTemplate,
     ClusterTemplate(FALSE, "1.29.0", <<"infrastructure-internal">>,
                     NilConfig),
     ClusterTemplate(FALSE, "invalid", <<>>, NilConfig),
     ClusterTemplate(TRUE, "invalid", <<"infrastructure-internal">>,
                     NilConfig),
     ClusterTemplate(TRUE, "", <<"infrastructure-internal">>, NilConfig),
     ClusterTemplate(TRUE, "1.29.0", <<>>, NilConfig),
     ClusterTemplate(TRUE, "1.29.0", <<"bootstrap-k0sproject-k0smotron">>,
                     NilConfig),
     ClusterTemplate(TRUE, "1.29.0", <<"infrastructure-aws">>, NilConfig)}
AdmitCredentials ==
    {NoCredential, Credential(FALSE, "Secret"), Credential(TRUE, "Secret"),
     Credential(TRUE, "AWSClusterStaticIdentity")}
AdmitServiceTemplates ==
    {NoServiceTemplate, ServiceTemplate(TRUE, ""),
     ServiceTemplate(FALSE, ""), ServiceTemplate(TRUE, ">=1.30.0"),
     ServiceTemplate(TRUE, "invalid")}
AdmitServices ==
    SeqsUpTo({Service("s1", disable, cross) :
                 disable \in BOOLEAN, cross \in BOOLEAN}
             \cup {Service("s2", FALSE, FALSE)}, MaxServices)

\* the statuses the controllers write while a call of SpecAdmit runs
AdmitTemplateStatuses ==
    {GoodTemplate, ClusterTemplate(FALSE, "invalid", <<>>, NilConfig)}
AdmitServiceTemplateStatuses ==
    {ServiceTemplate(TRUE, ""), ServiceTemplate(FALSE, ">=1.30.0")}

InitAdmit ==
    /\ \E t2 \in AdmitTemplates :
          clusterTemplates =
              [n \in TemplateNames |->
                  CASE n = "t1" -> GoodTemplate
                    [] n = "t2" -> t2
                    [] OTHER -> NoClusterTemplate]
    /\ \E s1 \in AdmitServiceTemplates :
          serviceTemplates =
              [n \in ServiceTemplateNames |->
                  IF n = "s1" THEN s1 ELSE ServiceTemplate(TRUE, "")]
    /\ \E c1 \in AdmitCredentials : credentials = [n \in CredentialNames |-> c1]
    /\ ValidateClusterUpgradePath \in BOOLEAN
    /\ \E services \in AdmitServices :
          LET new == ClusterDeployment("t2", "c1", NilConfig, FALSE,
                                       services, {})
          IN  \/ /\ request = Request("create", NoDeployment, new)
                 /\ ~ValidateClusterUpgradePath
              \/ \E oldTemplate \in {"t1", "t2"}, upgrades \in {{}, {"t2"}} :
                    request = Request("update",
                                  ClusterDeployment(oldTemplate, "c1",
                                      NilConfig, FALSE, <<>>, upgrades),
                                  [new EXCEPT !.availableUpgrades = upgrades])
    /\ deployment = request.old
    /\ response = NoResponse
    /\ call = Call("called", <<>>, {}, 0)
    /\ lifecycle = NoLifecycle

\* the controllers write the objects the request refers to
NextAdmit ==
    \/ DoValidateCreate
    \/ DoValidateUpdate
    \/ \E status \in AdmitTemplateStatuses :
          TemplateStatusUpdate(request.new.template, status)
    \/ \E status \in AdmitServiceTemplateStatuses :
          ServiceTemplateStatusUpdate("s1", status)
    \/ \E ready \in BOOLEAN :
          CredentialStatusUpdate(request.new.credential, ready)

SpecAdmit == InitAdmit /\ [][NextAdmit]_vars

\* The same calls on stores in which a malformed version, a malformed
\* constraint and a constraint no version of the model satisfies exist side
\* by side
KindsServices ==
    SeqsUpTo({Service("s1", FALSE, FALSE), Service("s2", FALSE, FALSE)},
             MaxServices)

InitKinds ==
    /\ \E version \in {"1.29.0", "invalid"} :
          clusterTemplates =
              [n \in TemplateNames |->
                  CASE n = "t1" -> GoodTemplate
                    [] n = "t2" ->
                        ClusterTemplate(TRUE, version,
                                        <<"infrastructure-internal">>,
                                        NilConfig)
                    [] OTHER -> NoClusterTemplate]
    /\ \E s1 \in {NoServiceTemplate} \cup
                 {ServiceTemplate(TRUE, constraint) :
                     constraint \in {"", "invalid", ">=1.28.0,<1.30.0"}} :
          serviceTemplates =
              [n \in ServiceTemplateNames |->
                  IF n = "s1" THEN s1 ELSE ServiceTemplate(TRUE, ">=1.30.0")]
    /\ \E c1 \in {Credential(FALSE, "Secret"), Credential(TRUE, "Secret")} :
          credentials = [n \in CredentialNames |-> c1]
    /\ ValidateClusterUpgradePath \in BOOLEAN
    /\ \E services \in KindsServices :
          LET new == ClusterDeployment("t2", "c1", NilConfig, FALSE,
                                       services, {})
          IN  \/ request = Request("create", NoDeployment, new)
              \/ \E oldTemplate \in {"t1", "t2"}, upgrades \in {{}, {"t2"}} :
                    request = Request("update",
                                  ClusterDeployment(oldTemplate, "c1",
                                      NilConfig, FALSE, <<>>, upgrades),
                                  [new EXCEPT !.availableUpgrades = upgrades])
    /\ deployment = request.old
    /\ response = NoResponse
    /\ call = Call("called", <<>>, {}, 0)
    /\ lifecycle = NoLifecycle

SpecKinds == InitKinds /\ [][NextAdmit]_vars

----------------------------------------------------------------------------
(* validateK8sCompatibility alone.  Its template argument is the object    *)
(* the caller got before the call: clusterTemplates holds it, and no       *)
(* action of SpecCompat writes a ClusterTemplate.                          *)

\* one step of validateK8sCompatibility
DoCompatibility ==
    /\ request.op = "compatibility"
    /\ call.pc \in {"called", "running"}
    /\ LET template == clusterTemplates[request.new.template]
           log == Extend(validateK8sCompatibility(call.log, serviceTemplates,
                                                  template, request.new).reads)
           res == validateK8sCompatibility(log, serviceTemplates, template,
                                           request.new)
       IN  Proceed(log, Result(<<>>, res.err, res.reads), request.new)
    /\ UNCHANGED <<lifecycle, store, ValidateClusterUpgradePath, deployment, request>>

CompatServiceTemplates ==
    {NoServiceTemplate} \cup
    {ServiceTemplate(TRUE, constraint) : constraint \in KubernetesConstraints}
CompatServices ==
    SeqsUpTo({Service(template, disable, FALSE) :
                 template \in ServiceTemplateNames, disable \in BOOLEAN},
             MaxCompatServices)

InitCompat ==
    /\ \E version \in KubernetesVersions :
          clusterTemplates =
              [n \in TemplateNames |->
                  IF n = "t1"
                  THEN ClusterTemplate(TRUE, version,
                                       <<"infrastructure-internal">>,
                                       NilConfig)
                  ELSE NoClusterTemplate]
    /\ serviceTemplates \in [ServiceTemplateNames -> CompatServiceTemplates]
    /\ credentials = [n \in CredentialNames |-> Credential(TRUE, "Secret")]
    /\ ValidateClusterUpgradePath = FALSE
    /\ \E services \in CompatServices :
          request = Request("compatibility", NoDeployment,
                            ClusterDeployment("t1", "c1", NilConfig, FALSE,
                                              services, {}))
    /\ deployment = NoDeployment
    /\ response = NoResponse
    /\ call = Call("called", <<>>, {}, 0)
    /\ lifecycle = NoLifecycle

NextCompat ==
    \/ DoCompatibility
    \/ \E name \in ServiceTemplateNames, status \in CompatServiceTemplates :
          ServiceTemplateStatusUpdate(name, status)

SpecCompat == InitCompat /\ [][NextCompat]_vars

----------------------------------------------------------------------------
(* isCredMatchTemplate and validateCredential alone *)

DoCredMatch ==
    /\ request.op = "credential" /\ response.op = "none"
    /\ credentials[request.new.credential].exists
    /\ response' =
           Response("isCredMatchTemplate",
               Result(<<>>,
                      isCredMatchTemplate(
                          credentials[request.new.credential],
                          clusterTemplates[request.new.template]),
                      <<>>),
               request.new)
    /\ UNCHANGED <<call, lifecycle, store, ValidateClusterUpgradePath, deployment, request>>

DoValidateCredential ==
    /\ request.op = "credential" /\ response.op = "none"
    /\ LET res == validateCredential(<<>>, credentials, request.new,
                      clusterTemplates[request.new.template])
       IN  response' = Response("validateCredential",
                                Result(<<>>, res.err, res.reads), request.new)
    /\ UNCHANGED <<call, lifecycle, store, ValidateClusterUpgradePath, deployment, request>>

InitCred ==
    /\ \E providers \in SeqsUpTo(ProviderStrings, MaxProviders) :
          clusterTemplates =
              [n \in TemplateNames |->
                  IF n = "t1"
                  THEN ClusterTemplate(TRUE, "", providers, NilConfig)
                  ELSE NoClusterTemplate]
    /\ serviceTemplates = [n \in ServiceTemplateNames |-> NoServiceTemplate]
    /\ \E c1 \in {NoCredential} \cup
                 {Credential(ready, kind) :
                     ready \in BOOLEAN, kind \in IdentityKinds} :
          credentials = [n \in CredentialNames |-> c1]
    /\ ValidateClusterUpgradePath = FALSE
    /\ request = Request("credential", NoDeployment,
                         ClusterDeployment("t1", "c1", NilConfig, FALSE,
                                           <<>>, {}))
    /\ deployment = NoDeployment
    /\ response = NoResponse
    /\ call = NoCall
    /\ lifecycle = NoLifecycle

NextCred == DoCredMatch \/ DoValidateCredential

SpecCred == InitCred /\ [][NextCred]_vars

----------------------------------------------------------------------------
(* Default alone: once on the drawn object, then again on its own output   *)

DoDefault ==
    /\ request.op = "default" /\ response.op = "none"
    /\ LET res == Default(<<>>, clusterTemplates, request.new)
       IN  response' = Response("default",
                                Result(<<>>, res.err, res.reads), res.obj)
    /\ UNCHANGED <<call, lifecycle, store, ValidateClusterUpgradePath, deployment, request>>

\* the second run takes the first run's output; request.old keeps the input
DoDefaultAgain ==
    /\ request.op = "default" /\ response.op = "default"
    /\ LET res == Default(<<>>, clusterTemplates, response.obj)
       IN  /\ response' = Response("default again",
                                   Result(<<>>, res.err, res.reads), res.obj)
           /\ request' = Request("default again", request.new, response.obj)
    /\ UNCHANGED <<call, lifecycle, store, ValidateClusterUpgradePath, deployment>>

Configs == {NilConfig, JSONConfig(""), JSONConfig("{\"foo\":\"bar\"}")}
UserConfigs == {NilConfig, JSONConfig(""), JSONConfig("{\"user\":1}")}

InitDefault ==
    /\ \E t1 \in {NoClusterTemplate} \cup
                 {ClusterTemplate(valid, "", <<"infrastructure-internal">>,
                                  config) :
                     valid \in BOOLEAN, config \in Configs} :
          clusterTemplates =
              [n \in TemplateNames |-> IF n = "t1" THEN t1
                                       ELSE NoClusterTemplate]
    /\ serviceTemplates = [n \in ServiceTemplateNames |-> NoServiceTemplate]
    /\ credentials = [n \in CredentialNames |-> Credential(TRUE, "Secret")]
    /\ ValidateClusterUpgradePath = FALSE
    /\ \E template \in {"", "t1"}, config \in UserConfigs,
          dryRun \in BOOLEAN :
          request = Request("default", NoDeployment,
                            ClusterDeployment(template, "c1", config, dryRun,
                                              <<>>, {}))
    /\ deployment = NoDeployment
    /\ response = NoResponse
    /\ call = NoCall
    /\ lifecycle = NoLifecycle

NextDefault == DoDefault \/ DoDefaultAgain

SpecDefault == InitDefault /\ [][NextDefault]_vars


----------------------------------------------------------------------------
(* The webhook in front of the store.  The API server takes a request,     *)
(* calls the defaulting webhook, then the validating one, persists the     *)
(* object when it is admitted and answers; the webhook calls go Get by     *)
(* Get, and templates are created, deleted and given their status, and     *)
(* credentials their status, at any time in between.  The deployment       *)
(* itself is handed to the webhooks and persisted under one                *)
(* resourceVersion, so nothing writes it while a request is decided.       *)

DefaultConfig == JSONConfig("{\"foo\":\"bar\"}")
SpecServices == {<<>>, <<Service("s1", FALSE, FALSE)>>}

\* the defaulting webhook, then the validating one, each on the store as it
\* is now
Admit(op, old, new) ==
    LET d == Default(<<>>, clusterTemplates, new)
        v == IF op = "create"
             THEN ValidateCreate(<<>>, clusterTemplates, serviceTemplates,
                                 credentials, d.obj)
             ELSE ValidateUpdate(<<>>, clusterTemplates, serviceTemplates,
                                 credentials, ValidateClusterUpgradePath,
                                 old, d.obj)
    IN  IF IsErr(d.err)
        THEN Response(op, Result(<<>>, d.err, d.reads), new)
        ELSE Response(op, Result(v.warnings, v.err, d.reads \o v.reads),
                      d.obj)

\* a create request arrives
Create(obj) ==
    /\ call.pc = "idle"
    /\ ~deployment.exists
    /\ request' = Request("create", NoDeployment, obj)
    /\ call' = Call("default", <<>>, {}, 0)
    /\ UNCHANGED <<response, lifecycle, store, ValidateClusterUpgradePath,
                   deployment>>

\* an update request arrives: the stored object is its old object
Update(obj) ==
    /\ call.pc = "idle"
    /\ deployment.exists
    /\ request' = Request("update", deployment, obj)
    /\ call' = Call("default", <<>>, {}, 0)
    /\ UNCHANGED <<response, lifecycle, store, ValidateClusterUpgradePath,
                   deployment>>

\* the mutating webhook: Default makes its one Get; the object it returns
\* is the object the validating webhook is given
CallDefault ==
    /\ call.pc = "default"
    /\ LET res == Default(<<>>, clusterTemplates, request.new)
       IN  IF IsErr(res.err)
           THEN /\ response' = Response(request.op,
                                        Result(<<>>, res.err, res.reads),
                                        request.new)
                /\ call' = [call EXCEPT !.pc = "done"]
                /\ UNCHANGED request
           ELSE /\ request' = [request EXCEPT !.new = res.obj]
                /\ call' = [call EXCEPT !.pc = "validate"]
                /\ UNCHANGED response
    /\ UNCHANGED <<lifecycle, store, ValidateClusterUpgradePath, deployment>>

\* the API server stores the object of an admitted request
Persist ==
    /\ call.pc = "done"
    /\ Allowed(response)
    /\ deployment' = request.new
    /\ call' = [call EXCEPT !.pc = "persisted"]
    /\ UNCHANGED <<lifecycle, store, ValidateClusterUpgradePath, request,
                   response>>

\* the API server answers the client and the request is over
Respond ==
    /\ \/ call.pc = "persisted"
       \/ call.pc = "done" /\ ~Allowed(response)
    /\ request' = NoRequest
    /\ response' = NoResponse
    /\ call' = NoCall
    /\ UNCHANGED <<lifecycle, store, ValidateClusterUpgradePath, deployment>>

\* a delete request: ValidateDelete reads nothing and admits it
Delete ==
    /\ call.pc = "idle"
    /\ deployment.exists
    /\ request' = Request("delete", deployment, NoDeployment)
    /\ response' = Response("delete", ValidateDelete(deployment), deployment)
    /\ deployment' = NoDeployment
    /\ call' = Call("persisted", <<>>, {}, 0)
    /\ UNCHANGED <<lifecycle, store, ValidateClusterUpgradePath>>

\* the deployment's controller writes Status.AvailableUpgrades
AvailableUpgradesUpdate(upgrades) ==
    /\ call.pc = "idle"
    /\ deployment.exists
    /\ deployment.availableUpgrades # upgrades
    /\ deployment' = [deployment EXCEPT !.availableUpgrades = upgrades]
    /\ UNCHANGED <<call, request, response, lifecycle, store,
                   ValidateClusterUpgradePath>>

\* the statuses a ClusterTemplate is given: the one of the controller test,
\* and a complete one
SpecTemplateStatuses(name) ==
    {ClusterTemplate(TRUE, "", <<>>, DefaultConfig),
     ClusterTemplate(TRUE, IF name = "t1" THEN "1.29.0" ELSE "1.30.0",
                     <<"infrastructure-internal">>, DefaultConfig)}

Init ==
    /\ clusterTemplates =
           [n \in TemplateNames |->
               CASE n = "t1" -> ClusterTemplate(TRUE, "1.29.0",
                                    <<"infrastructure-internal">>,
                                    DefaultConfig)
                 [] n = "t2" -> ClusterTemplate(TRUE, "1.30.0",
                                    <<"infrastructure-internal">>,
                                    DefaultConfig)
                 [] OTHER -> NoClusterTemplate]
    /\ serviceTemplates =
           [n \in ServiceTemplateNames |->
               IF n = "s1" THEN ServiceTemplate(TRUE, ">=1.28.0,<1.30.0")
               ELSE ServiceTemplate(TRUE, "")]
    /\ credentials = [n \in CredentialNames |-> Credential(TRUE, "Secret")]
    /\ ValidateClusterUpgradePath \in BOOLEAN
    /\ deployment = NoDeployment
    /\ request = NoRequest
    /\ response = NoResponse
    /\ call = NoCall
    /\ lifecycle = NoLifecycle

Next ==
    \/ \E template \in TemplateNames, config \in {NilConfig, JSONConfig("{}")},
          services \in SpecServices :
          Create(ClusterDeployment(template, "c1", config, FALSE, services,
                                   {}))
    \/ \E template \in TemplateNames, services \in SpecServices :
          Update([deployment EXCEPT !.template = template,
                                    !.services = services])
    \/ CallDefault
    \/ DoValidateCreate
    \/ DoValidateUpdate
    \/ Persist
    \/ Respond
    \/ Delete
    \/ \E name \in {"t2", "t3"} : TemplateCreate(name)
    \/ \E name \in {"t2", "t3"} : TemplateDelete(name)
    \/ \E name \in TemplateNames :
          \E status \in SpecTemplateStatuses(name) :
             TemplateStatusUpdate(name, status)
    \/ \E status \in {ServiceTemplate(TRUE, ">=1.28.0,<1.30.0"),
                       ServiceTemplate(FALSE, "")} :
          ServiceTemplateStatusUpdate("s1", status)
    \/ \E name \in CredentialNames, ready \in BOOLEAN :
          CredentialStatusUpdate(name, ready)
    \/ \E upgrades \in {{}, {"t2"}, {"t2", "t3"}} :
          AvailableUpgradesUpdate(upgrades)

Spec == Init /\ [][Next]_vars

----------------------------------------------------------------------------
(* One validating call with the stores that existed while it ran kept in   *)
(* call.snapshots.                                                         *)

ReadsServices ==
    SeqsUpTo({Service("s1", FALSE, FALSE), Service("s1", TRUE, FALSE),
              Service("s2", FALSE, FALSE)}, MaxServices)

ReadsServiceTemplateStatuses ==
    {ServiceTemplate(valid, constraint) :
        valid \in BOOLEAN, constraint \in {"", ">=1.30.0"}}

InitReads ==
    /\ \E valid \in BOOLEAN :
          clusterTemplates =
              [n \in TemplateNames |->
                  CASE n = "t1" -> GoodTemplate
                    [] n = "t2" ->
                        ClusterTemplate(valid, "1.29.0",
                                        <<"infrastructure-internal">>,
                                        NilConfig)
                    [] OTHER -> NoClusterTemplate]
    /\ \E valid \in BOOLEAN, constraint \in {"", ">=1.28.0,<1.30.0",
                                             ">=1.30.0"} :
          serviceTemplates =
              [n \in ServiceTemplateNames |->
                  IF n = "s1" THEN ServiceTemplate(valid, constraint)
                  ELSE ServiceTemplate(TRUE, "")]
    /\ \E ready \in BOOLEAN :
          credentials = [n \in CredentialNames |-> Credential(ready, "Secret")]
    /\ ValidateClusterUpgradePath \in BOOLEAN
    /\ \E services \in ReadsServices :
          LET new == ClusterDeployment("t2", "c1", NilConfig, FALSE,
                                       services, {})
          IN  \/ request = Request("create", NoDeployment, new)
              \/ \E oldTemplate \in {"t1", "t2"}, upgrades \in {{}, {"t2"}} :
                    request = Request("update",
                                  ClusterDeployment(oldTemplate, "c1",
                                      NilConfig, FALSE, <<>>, upgrades),
                                  [new EXCEPT !.availableUpgrades = upgrades])
    /\ deployment = request.old
    /\ response = NoResponse
    /\ call = Call("called", <<>>, {store}, 0)
    /\ lifecycle = NoLifecycle

NextReads ==
    \/ DoValidateCreate
    \/ DoValidateUpdate
    \/ \E status \in {GoodTemplate, [GoodTemplate EXCEPT !.valid = FALSE]} :
          TemplateStatusUpdate(request.new.template, status)
    \/ TemplateDelete(request.new.template)
    \/ \E name \in ServiceTemplateNames,
          status \in ReadsServiceTemplateStatuses :
          ServiceTemplateStatusUpdate(name, status)
    \/ \E name \in CredentialNames, ready \in BOOLEAN :
          CredentialStatusUpdate(name, ready)

SpecReads == InitReads /\ [][NextReads]_vars

\* the answer ValidateCreate / ValidateUpdate give to the request of this
\* state when every Get is served from the one store s
OutcomeOn(s) ==
    IF request.op = "create"
    THEN ValidateCreate(<<>>, s[1], s[2], s[3], request.new)
    ELSE ValidateUpdate(<<>>, s[1], s[2], s[3], ValidateClusterUpgradePath,
                        request.old, request.new)

\* a call that no write fell into returns what the operators give on the
\* store at once
StepsAgree ==
    (call.pc = "done" /\ call.writes = 0)
        => response = Response(request.op, OutcomeOn(store), request.new)

----------------------------------------------------------------------------
(* The lifecycle of an admitted deployment under its reconciler: Pending,  *)
(* Provisioning, Ready, Upgrading, Terminating, Deleted.  One action is    *)
(* one reconcile pass; the scheduler runs at most one pass at a time for   *)
(* the deployment and retries a pass that failed.                          *)

\* render(template, configuration): the manifests of a deployment
Render(obj) == IF obj.template = "t1" THEN {"cluster"}
               ELSE {"cluster", "machines"}

\* a create request that the webhooks admit puts the object in the store;
\* no action of SpecLifecycle writes a template or a credential, so the
\* Gets of the two webhook calls all read one store
Submit(obj) ==
    /\ ~deployment.exists
    /\ request' = Request("create", NoDeployment, obj)
    /\ response' = Admit("create", NoDeployment, obj)
    /\ Allowed(response')
    /\ deployment' = response'.obj
    /\ lifecycle' = Lifecycle("Pending", FALSE, FALSE, {})
    /\ UNCHANGED <<store, ValidateClusterUpgradePath, call>>

\* an admitted change of the template reference of a Ready deployment
Upgrade(template) ==
    /\ deployment.exists
    /\ lifecycle.phase = "Ready"
    /\ template # deployment.template
    /\ request' = Request("update", deployment,
                          [deployment EXCEPT !.template = template])
    /\ response' = Admit("update", deployment, request'.new)
    /\ Allowed(response')
    /\ deployment' = response'.obj
    /\ lifecycle' = [lifecycle EXCEPT !.phase = "Upgrading"]
    /\ UNCHANGED <<store, ValidateClusterUpgradePath, call>>

\* a pass on a Pending deployment attaches the finalizer
ReconcilePending ==
    /\ lifecycle.phase = "Pending"
    /\ lifecycle' = [lifecycle EXCEPT !.phase = "Provisioning",
                                      !.finalizer = TRUE]
    /\ UNCHANGED <<store, ValidateClusterUpgradePath, deployment, request,
                   response, call>>

\* a pass that renders and applies: applied is what it got to apply
ReconcileApply(applied) ==
    /\ lifecycle.phase \in {"Provisioning", "Upgrading"}
    /\ applied \subseteq Render(deployment)
    /\ lifecycle' =
           [lifecycle EXCEPT
               !.resources = (@ \cap Render(deployment)) \cup applied,
               !.phase = IF applied = Render(deployment) THEN "Ready" ELSE @]
    /\ UNCHANGED <<store, ValidateClusterUpgradePath, deployment, request,
                   response, call>>

\* a delete request: ValidateDelete admits it; an object with a finalizer
\* is marked for deletion, one without is removed at once
RequestDelete ==
    /\ deployment.exists
    /\ ~lifecycle.deleting
    /\ request' = Request("delete", deployment, NoDeployment)
    /\ response' = Response("delete", ValidateDelete(deployment), deployment)
    /\ IF lifecycle.finalizer
       THEN /\ lifecycle' = [lifecycle EXCEPT !.phase = "Terminating",
                                              !.deleting = TRUE]
            /\ UNCHANGED deployment
       ELSE /\ lifecycle' = NoLifecycle
            /\ deployment' = NoDeployment
    /\ UNCHANGED <<store, ValidateClusterUpgradePath, call>>

\* a pass on a Terminating deployment whose teardown got to remove torn and
\* nothing else, and that then removes the finalizer
ReconcileTerminating_FinalizerAnyway(torn) ==
    /\ lifecycle.phase = "Terminating"
    /\ torn \subseteq lifecycle.resources
    /\ lifecycle' = [lifecycle EXCEPT !.resources = @ \ torn,
                                      !.finalizer = FALSE,
                                      !.phase = "Deleted"]
    /\ UNCHANGED <<store, ValidateClusterUpgradePath, deployment, request,
                   response, call>>

\* a pass on a Terminating deployment: the teardown removes torn; the
\* finalizer goes when nothing is left, else the pass failed and is retried
ReconcileTerminating(torn) ==
    /\ lifecycle.phase = "Terminating"
    /\ torn \subseteq lifecycle.resources
    /\ lifecycle' =
           IF lifecycle.resources \ torn = {}
           THEN [lifecycle EXCEPT !.resources = {}, !.finalizer = FALSE,
                                  !.phase = "Deleted"]
           ELSE [lifecycle EXCEPT !.resources = @ \ torn]
    /\ UNCHANGED <<store, ValidateClusterUpgradePath, deployment, request,
                   response, call>>

\* the store removes an object marked for deletion that has no finalizer
Reap ==
    /\ deployment.exists
    /\ lifecycle.deleting /\ ~lifecycle.finalizer
    /\ deployment' = NoDeployment
    /\ lifecycle' = NoLifecycle
    /\ UNCHANGED <<store, ValidateClusterUpgradePath, request, response,
                   call>>

ResourceSets == SUBSET {"cluster", "machines"}
LifecycleServices ==
    {<<>>, <<Service("s1", FALSE, FALSE)>>, <<Service("s1", TRUE, FALSE)>>}

NextLifecycle ==
    \/ \E template \in {"t1", "t2"},
          config \in {NilConfig, JSONConfig("{}")}, services \in LifecycleServices :
          Submit(ClusterDeployment(template, "c1", config, FALSE, services,
                                   {}))
    \/ \E template \in {"t1", "t2"} : Upgrade(template)
    \/ ReconcilePending
    \/ \E applied \in ResourceSets : ReconcileApply(applied)
    \/ RequestDelete
    \/ \E torn \in ResourceSets : ReconcileTerminating(torn)
    \/ Reap

\* the store reaps, and the scheduler retries the pass of a Terminating
\* deployment for ever
SpecLifecycle ==
    /\ Init
    /\ [][NextLifecycle]_vars
    /\ WF_vars(Reap)


----------------------------------------------------------------------------
(* What the claims speak about, read off the state *)

Min(S) == CHOOSE i \in S : \A j \in S : i <= j

\* the object the first Get of the call for an object of this kind
\* returned; the object the store holds when the call made no such Get
ReadOf(kind, held) ==
    LET gets == {i \in 1..Len(call.log) : call.log[i].key.kind = kind}
    IN  IF gets = {} THEN held ELSE call.log[Min(gets)].obj

\* the objects the request under decision refers to, as the call got them
ReferredTemplate ==
    ReadOf("ClusterTemplate",
           getClusterDeploymentTemplate(<<>>, clusterTemplates,
                                        request.new.template).obj)
ReferredCredential ==
    ReadOf("Credential",
           getClusterDeploymentCredential(<<>>, credentials,
                                          request.new.credential).obj)

TemplateChanged == request.old.template # request.new.template
InUpgrades == request.new.template \in request.old.availableUpgrades

\* does the infrastructure provider take this kind of identity
ProviderAccepts(provider, kind) ==
    LET name == TrimPrefix(provider, InfraPrefix)
    IN  IF name = "internal" THEN kind = secretKind
        ELSE /\ GetClusterIdentityKinds(name).found
             /\ kind \in GetClusterIdentityKinds(name).kinds

InfraIndexes(providers) ==
    {i \in 1..Len(providers) : HasPrefix(providers[i], InfraPrefix)}

RECURSIVE Concat(_, _)
\* the reads of the first k entries of a list of check results, in order
Concat(results, k) ==
    IF k = 0 THEN <<>> ELSE Concat(results, k - 1) \o results[k].reads

TemplateNotValid ==
    Wrap(invalidClusterDeploymentMsg, Err("the template is not valid", "", ""))

----------------------------------------------------------------------------
(* C1 *)

InvalidTemplateReferred == ReferredTemplate.exists /\ ~ReferredTemplate.valid

\* C1 as stated: whenever the referenced ClusterTemplate has Valid = false,
\* ValidateCreate and ValidateUpdate reject, the template reference changed
\* or not.
C1_RejectsInvalidTemplate ==
    (response.op \in {"create", "update"} /\ InvalidTemplateReferred)
        => IsErr(response.err)

\* C1 amended: with Valid = false ValidateCreate rejects with the validity
\* error; ValidateUpdate rejects whenever the template reference changed
\* (upgrade forbidden, or the validity error); with an unchanged reference
\* the answer of ValidateUpdate does not depend on Valid.
C1_RejectsInvalidTemplateOnChange ==
    /\ (response.op = "create" /\ InvalidTemplateReferred)
           => response.err = TemplateNotValid
    /\ (response.op = "update" /\ InvalidTemplateReferred /\ TemplateChanged)
           => /\ IsErr(response.err)
              /\ response.err \in {TemplateNotValid, errClusterUpgradeForbidden}
              /\ (response.err = errClusterUpgradeForbidden)
                     <=> (ValidateClusterUpgradePath /\ ~InUpgrades)
    /\ (response.op = "update" /\ ReferredTemplate.exists /\ ~TemplateChanged)
           => LET other == [call.log EXCEPT ![1].obj.valid = ~@]
                  res == ValidateUpdate(other, clusterTemplates,
                                        serviceTemplates, credentials,
                                        ValidateClusterUpgradePath,
                                        request.old, request.new)
              IN  res.err = response.err /\ res.reads = response.reads

C1_Witness ==
    /\ response.op = "update" /\ InvalidTemplateReferred /\ TemplateChanged
    /\ response.err = TemplateNotValid

----------------------------------------------------------------------------
(* C3 *)

\* the six checks of ValidateCreate, each taken on its own: a check the
\* call made gets what the call's Gets returned, a check the call did not
\* come to reads the store
CreateChecks(obj) ==
    LET got == getClusterDeploymentTemplate(call.log, clusterTemplates,
                                            obj.template)
        compat == validateK8sCompatibility(Drop(call.log, 1),
                                           serviceTemplates, got.obj, obj)
        cred == validateCredential(Drop(call.log, 1 + Len(compat.reads)),
                                   credentials, obj, got.obj)
        svcs == ServicesHaveValidTemplates(
                    Drop(call.log, 1 + Len(compat.reads) + Len(cred.reads)),
                    serviceTemplates, obj.services, 1)
    IN  <<Result(<<>>, Wrap(invalidClusterDeploymentMsg, got.err), got.reads),
          Result(<<>>, Wrap(invalidClusterDeploymentMsg,
                            isTemplateValid(got.obj)), <<>>),
          Result(<<k8sCompatibilityWarning>>,
                 Wrap(k8sCompatibilityMsg, compat.err), compat.reads),
          Result(<<>>, Wrap(invalidClusterDeploymentMsg, cred.err),
                 cred.reads),
          Result(<<>>, Wrap(invalidClusterDeploymentMsg,
                     ClusterDeployCrossNamespaceServicesRefs(obj)), <<>>),
          Result(<<>>, Wrap(invalidClusterDeploymentMsg, svcs.err),
                 svcs.reads)>>

FailingChecks(checks) == {i \in 1..Len(checks) : IsErr(checks[i].err)}

\* C3: ValidateCreate answers with the outcome of the first of its six
\* checks, in the order resolve, validity, compatibility, credential,
\* cross-namespace references, service templates, that fails; it has read
\* what the checks up to that one read and nothing more; it accepts exactly
\* when all six pass.
C3_CreateFirstFailingCheck ==
    response.op = "create" =>
        LET checks == CreateChecks(request.new)
            failing == FailingChecks(checks)
        IN  IF failing = {}
            THEN /\ Allowed(response)
                 /\ response.warnings = <<>>
                 /\ response.reads = Concat(checks, Len(checks))
            ELSE /\ response.err = checks[Min(failing)].err
                 /\ response.warnings = checks[Min(failing)].warnings
                 /\ response.reads = Concat(checks, Min(failing))

\* the compatibility check fails and the credential check would fail too
C3_Witness ==
    /\ response.op = "create"
    /\ Min(FailingChecks(CreateChecks(request.new)) \cup {7}) = 3
    /\ 4 \in FailingChecks(CreateChecks(request.new))
    /\ response.err.wrap = k8sCompatibilityMsg

----------------------------------------------------------------------------
(* C4 *)

\* C4: in ValidateUpdate with a changed reference and enforcement on, an
\* update to a resolvable template outside old.Status.AvailableUpgrades gets
\* the forbidden-upgrade outcome after the template read alone, whatever
\* the template's validity and compatibility; a validity or compatibility
\* outcome is only ever given once the upgrade-path check has passed.
C4_UpgradePathBeforeValidity ==
    response.op = "update" =>
        /\ (TemplateChanged /\ ValidateClusterUpgradePath
            /\ ReferredTemplate.exists /\ ~InUpgrades)
               => /\ response.err = errClusterUpgradeForbidden
                  /\ response.warnings = <<upgradeWarning>>
                  /\ response.reads =
                         <<Key("ClusterTemplate", request.new.template)>>
        /\ (response.err = TemplateNotValid
            \/ response.err.wrap = k8sCompatibilityMsg)
               => /\ TemplateChanged
                  /\ ValidateClusterUpgradePath => InUpgrades

\* forbidden although the template is invalid and compatibility would fail
C4_Witness ==
    /\ response.op = "update" /\ TemplateChanged /\ ValidateClusterUpgradePath
    /\ ~InUpgrades /\ InvalidTemplateReferred
    /\ IsErr(validateK8sCompatibility(<<>>, serviceTemplates, ReferredTemplate,
                                      request.new).err)
    /\ response.err = errClusterUpgradeForbidden

----------------------------------------------------------------------------
(* C5 *)

\* C5: no create or update is accepted unless the referenced Credential
\* exists, is Ready and has an identity kind that every infrastructure
\* provider of the resolved template accepts, and no service attachment
\* refers across namespaces; ValidateUpdate runs the credential and the
\* cross-namespace check also when the template reference is unchanged.
C5_CredentialAlwaysChecked ==
    response.op \in {"create", "update"} =>
        /\ Allowed(response)
               => /\ ReferredCredential.exists
                  /\ ReferredCredential.ready
                  /\ InfraIndexes(ReferredTemplate.providers) # {}
                  /\ \A i \in InfraIndexes(ReferredTemplate.providers) :
                        ProviderAccepts(ReferredTemplate.providers[i],
                                        ReferredCredential.kind)
                  /\ \A i \in 1..Len(request.new.services) :
                        ~request.new.services[i].crossNamespace
        /\ (response.op = "update" /\ ~TemplateChanged
            /\ ReferredTemplate.exists)
               => LET cred == validateCredential(Drop(call.log, 1),
                                                 credentials, request.new,
                                                 ReferredTemplate)
                      refs == ClusterDeployCrossNamespaceServicesRefs(
                                  request.new)
                  IN  /\ IsErr(cred.err)
                         => response.err = Wrap(invalidClusterDeploymentMsg,
                                                cred.err)
                      /\ (~IsErr(cred.err) /\ IsErr(refs))
                         => response.err = Wrap(invalidClusterDeploymentMsg,
                                                refs)
                      /\ InfraIndexes(ReferredTemplate.providers) # {}
                         => \E i \in 1..Len(response.reads) :
                               response.reads[i] =
                                   Key("Credential", request.new.credential)

\* an update that keeps its template is rejected for its credential
C5_Witness ==
    /\ response.op = "update" /\ ~TemplateChanged
    /\ ReferredCredential.exists /\ ~ReferredCredential.ready
    /\ response.err = Wrap(invalidClusterDeploymentMsg,
                           Err("credential is not Ready", "", ""))


----------------------------------------------------------------------------
(* C2 *)

\* the defaulting webhook let the request through to the validating one
DefaultPassed ==
    response.err.wrap \notin
        {"could not get template for the clusterDeployment",
         "template is invalid"}

\* everything ValidateUpdate checks after the upgrade path passes, each
\* check on what the call's Gets returned
RemainingChecksPass ==
    LET compat == validateK8sCompatibility(Drop(call.log, 1),
                                           serviceTemplates, ReferredTemplate,
                                           request.new)
        cred == validateCredential(Drop(call.log, 1 + Len(compat.reads)),
                                   credentials, request.new, ReferredTemplate)
        svcs == ServicesHaveValidTemplates(
                    Drop(call.log, 1 + Len(compat.reads) + Len(cred.reads)),
                    serviceTemplates, request.new.services, 1)
    IN  /\ ReferredTemplate.exists /\ ReferredTemplate.valid
        /\ ~IsErr(compat.err)
        /\ ~IsErr(cred.err)
        /\ ~IsErr(ClusterDeployCrossNamespaceServicesRefs(request.new))
        /\ ~IsErr(svcs.err)

UpgradeRequest ==
    /\ response.op = "update" /\ DefaultPassed
    /\ ValidateClusterUpgradePath /\ TemplateChanged

\* the API server has stored the object of the request
Persisted == call.pc = "persisted"

\* once admitted, an upgrade is what the store holds
C2_AcceptedUpgrades ==
    /\ (UpgradeRequest /\ InUpgrades /\ RemainingChecksPass)
           => /\ Allowed(response)
              /\ Persisted => deployment.template = request.new.template
    /\ (UpgradeRequest /\ Allowed(response))
           => /\ InUpgrades
              /\ Persisted =>
                     deployment.template \in request.old.availableUpgrades
    /\ (response.op = "update" /\ ~Persisted) => deployment = request.old

\* C2 as stated: with enforcement on, an update that changes the template
\* to a name outside old.Status.AvailableUpgrades gets the 'cluster upgrade
\* is forbidden' outcome; one to a name inside is accepted when the template
\* exists, is valid and the remaining checks pass; no accepted update moves
\* a deployment to a template outside the list of the object it replaced.
C2_ForbiddenOutsideUpgrades ==
    /\ (UpgradeRequest /\ ~InUpgrades)
           => response.err = errClusterUpgradeForbidden
    /\ C2_AcceptedUpgrades

\* C2 amended: the forbidden outcome is given when the new template
\* resolves; a new template that does not resolve is rejected as not found
\* before the upgrade path is looked at.  The rest is as stated.
C2_ForbiddenOutsideUpgradesWhenResolved ==
    /\ (UpgradeRequest /\ ~InUpgrades /\ ReferredTemplate.exists)
           => /\ response.err = errClusterUpgradeForbidden
              /\ deployment = request.old
    /\ (UpgradeRequest /\ ~ReferredTemplate.exists)
           => /\ response.err =
                     Wrap(invalidClusterDeploymentMsg,
                          Err("NotFound", request.new.template, "NotFound"))
              /\ deployment = request.old
    /\ C2_AcceptedUpgrades

\* an upgrade along the allowed path was admitted, and one outside refused
C2_Witness ==
    /\ UpgradeRequest /\ InUpgrades /\ Allowed(response) /\ Persisted
    /\ deployment.template = request.new.template
    /\ request.old.availableUpgrades # TemplateNames



----------------------------------------------------------------------------
(* C6 *)

IsInfra(provider) == HasPrefix(provider, InfraPrefix)

\* the error isCredMatchTemplate owes to a provider that does not accept
RefusalOf(provider) ==
    LET name == TrimPrefix(provider, InfraPrefix)
    IN  IF name # "internal" /\ ~GetClusterIdentityKinds(name).found
        THEN Err("unsupported infrastructure provider", name, "")
        ELSE Err("wrong kind of the ClusterIdentity", name, "")

RefusingProviders ==
    {i \in InfraIndexes(ReferredTemplate.providers) :
        ~ProviderAccepts(ReferredTemplate.providers[i],
                         ReferredCredential.kind)}

\* C6: isCredMatchTemplate accepts exactly when every infrastructure
\* provider of the template takes the credential's identity kind
\* ('internal' takes 'Secret' alone, any other must be in the catalog and
\* list the kind); the first refusing provider in declaration order decides
\* the error; providers without the infrastructure prefix change nothing.
C6_CredMatchesEveryInfraProvider ==
    response.op = "isCredMatchTemplate" =>
        /\ IF RefusingProviders = {} THEN response.err = NoErr
           ELSE response.err =
                    RefusalOf(ReferredTemplate.providers[Min(RefusingProviders)])
        /\ response.err =
               isCredMatchTemplate(ReferredCredential,
                   [ReferredTemplate EXCEPT
                       !.providers = SelectSeq(@, IsInfra)])

\* the second provider refuses after 'internal' accepted the Secret
C6_Witness ==
    /\ response.op = "isCredMatchTemplate"
    /\ Len(ReferredTemplate.providers) = 2
    /\ ReferredTemplate.providers[1] = "infrastructure-internal"
    /\ RefusingProviders = {2}
    /\ response.err = RefusalOf(ReferredTemplate.providers[2])

----------------------------------------------------------------------------
(* C7, C8, C9 *)

EnabledServices ==
    {i \in 1..Len(request.new.services) : ~request.new.services[i].disable}

ReadsOf(resp) == {resp.reads[i] : i \in 1..Len(resp.reads)}

\* C7: with Status.KubernetesVersion empty validateK8sCompatibility
\* succeeds and reads no ServiceTemplate, whatever the services and the
\* store hold.
C7_NoVersionNoCheck ==
    (response.op = "compatibility" /\ ReferredTemplate.kubernetesVersion = "")
        => /\ response.err = NoErr
           /\ response.reads = <<>>

\* an enabled service whose template is missing or cannot be parsed
C7_Witness ==
    /\ response.op = "compatibility"
    /\ ReferredTemplate.kubernetesVersion = ""
    /\ \E i \in EnabledServices :
          LET t == serviceTemplates[request.new.services[i].template]
          IN  ~t.exists \/ t.kubernetesConstraint = "invalid"
    /\ response.err = NoErr

\* C8 as stated: with no enabled service validateK8sCompatibility passes
\* for every platform version string, a malformed one included.
C8_NoEnabledServicePasses ==
    (response.op = "compatibility" /\ EnabledServices = {})
        => response.err = NoErr

\* the ServiceTemplates only disabled entries refer to
DisabledOnly ==
    {n \in ServiceTemplateNames :
        /\ \E i \in 1..Len(request.new.services) :
              request.new.services[i].template = n
        /\ \A i \in EnabledServices : request.new.services[i].template # n}

\* the Gets of the call for the ServiceTemplate n
GetsOf(n) ==
    {i \in 1..Len(call.log) : call.log[i].key = Key("ServiceTemplate", n)}

\* every Get of the call for one key returned the same object
SameAnswers ==
    \A i, j \in 1..Len(call.log) :
        call.log[i].key = call.log[j].key => call.log[i].obj = call.log[j].obj

\* the ServiceTemplates as the call got them, and as the store holds them
\* where the call made no Get
SeenServiceTemplates ==
    [n \in ServiceTemplateNames |->
        IF GetsOf(n) = {} THEN serviceTemplates[n]
        ELSE call.log[Min(GetsOf(n))].obj]

\* C9: the ServiceTemplate of a disabled entry is not read, whatever is
\* written to it while the call runs, and putting any other object in its
\* place, or none, leaves the result of validateK8sCompatibility as it is.
C9_DisabledNeverEvaluated ==
    response.op = "compatibility" =>
        \A n \in DisabledOnly :
            /\ Key("ServiceTemplate", n) \notin ReadsOf(response)
            /\ SameAnswers =>
                  \A other \in CompatServiceTemplates :
                     LET res == validateK8sCompatibility(<<>>,
                                    [SeenServiceTemplates EXCEPT ![n] = other],
                                    ReferredTemplate, request.new)
                     IN  res.err = response.err /\ res.reads = response.reads

\* a disabled entry with a template that is missing or would fail, next to
\* enabled ones that were checked and passed, with a write in between
C9_Witness ==
    /\ response.op = "compatibility"
    /\ call.writes > 0
    /\ \E n \in DisabledOnly :
          \/ ~serviceTemplates[n].exists
          \/ serviceTemplates[n].kubernetesConstraint \in
                 {"invalid", ">=1.30.0"}
    /\ ReferredTemplate.kubernetesVersion = "1.29.0"
    /\ response.reads # <<>>
    /\ response.err = NoErr

----------------------------------------------------------------------------
(* C10 *)

\* C10: Default run again on its own output changes nothing and fails
\* exactly when the first run failed; where the first run defaulted, the
\* second returns at once and leaves the defaulted Config and DryRun.
\* (request.old is the input of the first run, request.new its output.)
C10_DefaultIdempotent ==
    response.op = "default again" =>
        /\ response.obj = request.new
        /\ response.err = Default(<<>>, clusterTemplates, request.old).err
        /\ request.new # request.old
               => /\ response.reads = <<>>
                  /\ response.obj.dryRun
                  /\ response.obj.config.set
                  /\ response.obj.config.raw = ReferredTemplate.config.raw

\* the first run defaulted an object that had asked for no dry run
C10_Witness ==
    /\ response.op = "default again"
    /\ ~request.old.config.set /\ ~request.old.dryRun
    /\ request.new.dryRun /\ request.new.config.set
    /\ response.obj = request.new

----------------------------------------------------------------------------
(* C11 *)

\* the object handed to the last run of Default, and the template it names
DefaultInput == request.new
DefaultTemplate ==
    IF DefaultInput.template = "" THEN NoClusterTemplate
    ELSE clusterTemplates[DefaultInput.template]

\* the only case in which Default has something to do
DefaultApplies ==
    /\ ~DefaultInput.config.set
    /\ DefaultInput.template # ""
    /\ DefaultTemplate.exists /\ DefaultTemplate.valid
    /\ DefaultTemplate.config.set

\* C11: Default changes the object only when it has no Config, names a
\* template, and that template exists, is valid and carries a Config; then
\* Config equals the template's Config, DryRun is true and every other
\* field is as it was.  In every other case the object is returned as it
\* came, and an absent or invalid template is an error while a Config given
\* by the user, an empty template name and a template without a Config are
\* not.
C11_DefaultFrame ==
    response.op \in {"default", "default again"} =>
        IF DefaultApplies
        THEN /\ response.obj = [DefaultInput EXCEPT
                                    !.config = DefaultTemplate.config,
                                    !.dryRun = TRUE]
             /\ response.obj # DefaultInput
             /\ ~IsErr(response.err)
        ELSE /\ response.obj = DefaultInput
             /\ IsErr(response.err) <=>
                    /\ ~DefaultInput.config.set
                    /\ DefaultInput.template # ""
                    /\ ~(DefaultTemplate.exists /\ DefaultTemplate.valid)

\* an object without Config and without dry run was defaulted
C11_Witness ==
    /\ response.op = "default"
    /\ DefaultApplies
    /\ ~DefaultInput.dryRun
    /\ response.obj.dryRun
    /\ response.obj.config = DefaultTemplate.config
    /\ response.obj.template = DefaultInput.template
    /\ response.obj.credential = DefaultInput.credential

----------------------------------------------------------------------------
(* C12 *)

\* the failures validateK8sCompatibility marks "should never happen"
InternalFailure(e) ==
    e.reason \in {"failed to parse k8s version",
                  "failed to parse k8s constrained version"}

\* any other error of a validating call
PolicyRejection(e) == IsErr(e) /\ ~InternalFailure(e)

\* the answer the request of this state would get with another service list
OutcomeWith(services) ==
    LET new == [request.new EXCEPT !.services = services]
    IN  IF request.op = "create"
        THEN ValidateCreate(<<>>, clusterTemplates, serviceTemplates, credentials,
                            new)
        ELSE ValidateUpdate(<<>>, clusterTemplates, serviceTemplates, credentials,
                            ValidateClusterUpgradePath, request.old, new)

\* C12 as stated: the outcome of a call that failed on a malformed version
\* or a malformed constraint differs in kind from the outcome of every
\* rejection the same request gets, on the same store, with another
\* service list.  (The store is the one the call read: no write fell into
\* the call.)
C12_InternalFailureDistinct ==
    (/\ response.op \in {"create", "update"}
     /\ InternalFailure(response.err)
     /\ call.writes = 0)
        => \A services \in KindsServices :
              PolicyRejection(OutcomeWith(services).err)
                  => OutcomeKind(OutcomeWith(services)) # OutcomeKind(response)

----------------------------------------------------------------------------
(* C13 *)

\* no key occurs twice in the reads of a call
ReadOnce(reads) ==
    \A i, j \in 1..Len(reads) : reads[i] = reads[j] => i = j

\* the decision of the finished call is the decision OutcomeOn gives on one
\* of the stores that existed while the call ran
SnapshotDecision ==
    \E s \in call.snapshots :
        IsErr(response.err) <=> IsErr(OutcomeOn(s).err)

\* C13 as stated: a finished ValidateCreate or ValidateUpdate call has read
\* every key at most once, and its accept/reject decision is the decision
\* the request gets on one single store among those that existed during the
\* call, whatever the controllers wrote in between.
C13_ReadOnceSnapshotDecision ==
    call.pc = "done" => ReadOnce(response.reads) /\ SnapshotDecision

----------------------------------------------------------------------------
(* C14 *)

\* a step that takes the finalizer off the deployment
FinalizerRemoved == lifecycle.finalizer /\ ~lifecycle'.finalizer

\* a step of a Terminating deployment after which rendered resources remain
TeardownFailed ==
    lifecycle.phase = "Terminating" /\ lifecycle'.resources # {}

\* a pass on a Terminating deployment after which no rendered resource is left
TeardownCompleted ==
    /\ lifecycle.phase = "Terminating" /\ lifecycle.finalizer
    /\ lifecycle' # lifecycle
    /\ lifecycle'.resources = {}

\* C14: the finalizer is taken off only once deletion was requested and by
\* a pass after which no rendered resource is left; a pass that leaves
\* resources keeps the deployment Terminating with its finalizer; a pass
\* that leaves none takes the finalizer off, and an object marked for
\* deletion without a finalizer is eventually gone from the store.
C14_FinalizerOnlyAfterTeardown ==
    /\ [][/\ FinalizerRemoved => lifecycle.deleting /\ TeardownCompleted
          /\ TeardownFailed => /\ lifecycle'.phase = "Terminating"
                               /\ lifecycle'.finalizer
                               /\ lifecycle'.deleting
                               /\ deployment'.exists
          /\ TeardownCompleted => ~lifecycle'.finalizer]_vars
    /\ (lifecycle.deleting /\ ~lifecycle.finalizer) ~> ~deployment.exists

\* a pass completed the teardown of a deployment that had resources: the
\* finalizer is off and the store has not reaped the object yet
C14_Witness ==
    /\ lifecycle.phase = "Deleted"
    /\ lifecycle.deleting /\ ~lifecycle.finalizer
    /\ lifecycle.resources = {}
    /\ deployment.exists
    /\ request.op = "delete"


====
